---- MODULE Spec2Model ----
(***************************************************************************)
(* jankloada: a mod list (ModList), profiles (ModProfile), the conversion  *)
(* between the list and the launcher's mod file (ModFileDTO), and the GUI  *)
(* session (Jankloada::update / view) that drives them.                    *)
(*                                                                         *)
(* Vec indices are 0-based in the source; sequences are 1-based here, so   *)
(* a source index i is the sequence position i + 1.                        *)
(* Option<T> is a sequence of length at most one: <<>> is None, <<x>> is   *)
(* Some(x).                                                                *)
(***************************************************************************)
EXTENDS Integers, Sequences, FiniteSets, TLC

VARIABLES
    mod_list,       \* Option<ModList>: the list held in memory
    dirty,          \* Jankloada.dirty
    profile_name,   \* Jankloada.profile_name
    profile_list,   \* Jankloada.profile_list
    mod_file,       \* the content of the launcher's mod file: a ModFileDTO
    profile_dir,    \* the profile files of the data dir: name -> Option<ModProfile>
    message,        \* the Message the last call of Jankloada::update handled
    loaded,         \* the entries the list had when it was loaded, their flags aside
    call            \* the last call a library client made: arguments and result

vars == <<mod_list, dirty, profile_name, profile_list, mod_file, profile_dir,
          message, loaded, call>>

\* ---------------------------------------------------------------- bounds
MaxLen == 3          \* longest mod list of the library specifications
MaxProfileLen == 3   \* longest identifier sequence of a profile
MaxGuiLen == 2       \* longest mod list of the GUI session

\* ------------------------------------------------------------ input sets
UUIDs == {"one", "two", "three"}          \* identifiers of list entries
GuiUUIDs == <<"one", "two", "three">>     \* the identifier of the GUI's k-th mod
Games == {"warhammer3", "other"}
ProfileNames == {"waaagh"}

\* --------------------------------------------------------------- Option
None == <<>>
Some(x) == <<x>>
is_some(o) == o # <<>>
unwrap(o) == o[1]

\* ------------------------------------------------------------- ModEntry
\* The descriptive fields other than uuid, name and game take one value each;
\* name is the number of the entry, so that two entries of one uuid differ.
ModEntry(uuid, name, active, game) ==
    [uuid |-> uuid, name |-> name, active |-> active, category |-> "mod",
     game |-> game, owned |-> TRUE, packfile |-> "a.pack", short |-> "a mod"]

set_active(m, t) == [m EXCEPT !.active = t]

\* -------------------------------------------------------------- ModList
mods(l) == l

get_active_all(l) == l

get_active(l) == SelectSeq(l, LAMBDA m : m.active)

deactivate_all(l) == [k \in DOMAIN l |-> [l[k] EXCEPT !.active = FALSE]]

\* Vec::contains
contains(s, x) == \E k \in DOMAIN s : s[k] = x

\* Iterator::rposition: Some(index) of the last match
rposition(s, u) ==
    IF \E k \in DOMAIN s : s[k].uuid = u
    THEN Some((CHOOSE k \in DOMAIN s :
                 s[k].uuid = u /\ \A j \in DOMAIN s : s[j].uuid = u => j <= k) - 1)
    ELSE None

\* Iterator::position on the entries' uuid: Some(index) of the first match
position(s, u) ==
    IF \E k \in DOMAIN s : s[k].uuid = u
    THEN Some((CHOOSE k \in DOMAIN s :
                 s[k].uuid = u /\ \A j \in DOMAIN s : s[j].uuid = u => k <= j) - 1)
    ELSE None

\* Vec::remove(i): the vector without its element at index i
remove(s, i) == SubSeq(s, 1, i) \o SubSeq(s, i + 2, Len(s))

\* Iterator::partition on profile.active_mods.contains(&m.uuid): the entries that
\* satisfy the test, and the others, each in the order of the input
partition(s, active_mods) ==
    [yes |-> SelectSeq(s, LAMBDA m : contains(active_mods, m.uuid)),
     no |-> SelectSeq(s, LAMBDA m : ~contains(active_mods, m.uuid))]

RECURSIVE order_by_profile_prepending(_, _, _)
order_by_profile_prepending(active_mods, in_profile, ordered) ==
    IF active_mods = <<>>
    THEN [in_profile |-> in_profile, ordered |-> ordered]
    ELSE LET p == position(in_profile, Head(active_mods))
         IN  IF is_some(p)
             THEN order_by_profile_prepending(Tail(active_mods),
                                              remove(in_profile, unwrap(p)),
                                              <<in_profile[unwrap(p) + 1]>> \o ordered)
             ELSE order_by_profile_prepending(Tail(active_mods), in_profile, ordered)

\* The filter_map of apply_profile: for each identifier of the profile in turn,
\* take the first entry of in_profile that has it out of in_profile.
RECURSIVE order_by_profile(_, _, _)
order_by_profile(active_mods, in_profile, ordered) ==
    IF active_mods = <<>>
    THEN [in_profile |-> in_profile, ordered |-> ordered]
    ELSE LET p == position(in_profile, Head(active_mods))
         IN  IF is_some(p)
             THEN order_by_profile(Tail(active_mods), remove(in_profile, unwrap(p)),
                                   Append(ordered, in_profile[unwrap(p) + 1]))
             ELSE order_by_profile(Tail(active_mods), in_profile, ordered)

apply_profile_losing(l, profile) ==
    LET parts == partition(deactivate_all(l), profile.active_mods)
        in_profile == [k \in DOMAIN parts.yes |-> [parts.yes[k] EXCEPT !.active = TRUE]]
        r == order_by_profile(profile.active_mods, in_profile, <<>>)
    IN  r.ordered \o parts.no

apply_profile_keeping_flags(l, profile) ==
    LET parts == partition(l, profile.active_mods)
        in_profile == [k \in DOMAIN parts.yes |-> [parts.yes[k] EXCEPT !.active = TRUE]]
        r == order_by_profile(profile.active_mods, in_profile, <<>>)
    IN  r.ordered \o r.in_profile \o parts.no

apply_profile_duplicating(l, profile) ==
    LET parts == partition(deactivate_all(l), profile.active_mods)
        in_profile == [k \in DOMAIN parts.yes |-> [parts.yes[k] EXCEPT !.active = TRUE]]
        r == order_by_profile(profile.active_mods, in_profile, <<>>)
    IN  r.ordered \o in_profile \o parts.no

apply_profile_unordered(l, profile) ==
    LET parts == partition(deactivate_all(l), profile.active_mods)
        in_profile == [k \in DOMAIN parts.yes |-> [parts.yes[k] EXCEPT !.active = TRUE]]
    IN  in_profile \o parts.no

\* ModList::apply_profile: in_profile_ordered, then what is left of in_profile,
\* then outside_profile
apply_profile(l, profile) ==
    LET parts == partition(deactivate_all(l), profile.active_mods)
        in_profile == [k \in DOMAIN parts.yes |-> [parts.yes[k] EXCEPT !.active = TRUE]]
        r == order_by_profile(profile.active_mods, in_profile, <<>>)
    IN  r.ordered \o r.in_profile \o parts.no

\* Result<()> and the list after the call
set_mod_active_state_off_by_one(l, index, b) ==
    IF index <= Len(l)
    THEN [ok |-> TRUE,
          list |-> [k \in DOMAIN l |-> IF k = index + 1 THEN set_active(l[k], b) ELSE l[k]]]
    ELSE [ok |-> FALSE, list |-> l]

set_mod_active_state(l, index, b) ==
    IF index < Len(l)
    THEN [ok |-> TRUE, list |-> [l EXCEPT ![index + 1] = set_active(l[index + 1], b)]]
    ELSE [ok |-> FALSE, list |-> l]

\* ----------------------------------------------------------- ModFileDTO
ModEntryDTO(m, order) ==
    [uuid |-> m.uuid, name |-> m.name, active |-> m.active, category |-> m.category,
     game |-> m.game, order |-> order, owned |-> m.owned, packfile |-> m.packfile,
     short |-> m.short]

\* impl From<ModList> for ModFileDTO: enumerate() counts from 0
FromModList_zero_based(l) == [k \in DOMAIN l |-> ModEntryDTO(l[k], k - 1)]

FromModList(l) == [k \in DOMAIN l |-> ModEntryDTO(l[k], (k - 1) + 1)]

\* slice::sort_by_key(|m| m.order): a stable sort, ascending
RECURSIVE sort_by_key_descending(_)
sort_by_key_descending(s) ==
    IF s = <<>> THEN <<>>
    ELSE LET rest == sort_by_key_descending(SubSeq(s, 1, Len(s) - 1))
             x == s[Len(s)]
             before == SelectSeq(rest, LAMBDA m : m.order >= x.order)
             after == SelectSeq(rest, LAMBDA m : m.order < x.order)
         IN  before \o <<x>> \o after

RECURSIVE sort_by_key(_)
sort_by_key(s) ==
    IF s = <<>> THEN <<>>
    ELSE LET rest == sort_by_key(SubSeq(s, 1, Len(s) - 1))
             x == s[Len(s)]
             before == SelectSeq(rest, LAMBDA m : m.order <= x.order)
             after == SelectSeq(rest, LAMBDA m : m.order > x.order)
         IN  before \o <<x>> \o after

\* impl From<ModFileDTO> for ModList
FromModFileDTO(dto) ==
    LET sorted == sort_by_key(dto)
    IN  [k \in DOMAIN sorted |->
            [uuid |-> sorted[k].uuid, name |-> sorted[k].name,
             active |-> sorted[k].active, category |-> sorted[k].category,
             game |-> sorted[k].game, owned |-> sorted[k].owned,
             packfile |-> sorted[k].packfile, short |-> sorted[k].short]]

\* ----------------------------------------------------------- ModProfile
ModProfile(name, active_mods) == [name |-> name, active_mods |-> active_mods]

new_from_mod_list(name, l) ==
    LET active == get_active(l)
    IN  ModProfile(name, [k \in DOMAIN active |-> active[k].uuid])

\* ------------------------------------------------- the library's clients
\* The lists a client may start from: any identifiers (repeated ones too), any flags.
Lists ==
    UNION {{[k \in 1..n |-> ModEntry(f[k][1], k, f[k][2], "warhammer3")] :
              f \in [1..n -> UUIDs \X BOOLEAN]} : n \in 0..MaxLen}

\* The identifier sequences of a profile: any identifiers, repeated ones and
\* ones the list lacks too.
ActiveMods == UNION {[1..n -> UUIDs] : n \in 0..MaxProfileLen}

NoMessage == [type |-> "none", n |-> "", i |-> 0, b |-> FALSE]

NoCall ==
    [op |-> "none", pre |-> <<>>, profile |-> ModProfile("", <<>>), name |-> "",
     index |-> 0, b |-> FALSE, ok |-> TRUE, dto |-> <<>>, repeat |-> FALSE,
     apply |-> None]

\* No GUI: the session's fields keep their values.
NoGui ==
    /\ dirty = FALSE
    /\ profile_name = ""
    /\ profile_list = {}
    /\ mod_file = <<>>
    /\ profile_dir = [n \in ProfileNames |-> None]
    /\ message = NoMessage

GuiUnchanged ==
    UNCHANGED <<dirty, profile_name, profile_list, mod_file, profile_dir, message>>

\* An entry without its active flag, and a list's entries without theirs
descriptor(m) == [m EXCEPT !.active = FALSE]
descriptors(l) == [k \in DOMAIN l |-> descriptor(l[k])]

LibInit ==
    /\ \E l \in Lists : mod_list = Some(l) /\ loaded = descriptors(l)
    /\ call = NoCall
    /\ NoGui

LibDeactivateAll ==
    /\ call.op = "none"
    /\ mod_list' = Some(deactivate_all(unwrap(mod_list)))
    /\ call' = [NoCall EXCEPT !.op = "deactivate_all", !.pre = unwrap(mod_list)]
    /\ UNCHANGED loaded
    /\ GuiUnchanged

LibApplyProfile ==
    \E n \in ProfileNames, a \in ActiveMods :
        LET profile == ModProfile(n, a)
        IN  /\ \/ call.op = "none"
               \/ call.op = "apply_profile" /\ ~call.repeat /\ call.profile = profile
            /\ mod_list' = Some(apply_profile(unwrap(mod_list), profile))
            /\ call' = [NoCall EXCEPT !.op = "apply_profile", !.pre = unwrap(mod_list),
                                      !.profile = profile,
                                      !.repeat = (call.op = "apply_profile"
                                                  /\ call.profile = profile)]
            /\ UNCHANGED loaded
            /\ GuiUnchanged

LibSetModActiveState ==
    \E index \in 0..(MaxLen + 1), b \in BOOLEAN :
        LET r == set_mod_active_state(unwrap(mod_list), index, b)
        IN  /\ call.op = "none"
            /\ mod_list' = Some(r.list)
            /\ call' = [NoCall EXCEPT !.op = "set_mod_active_state",
                                      !.pre = unwrap(mod_list),
                                      !.index = index, !.b = b, !.ok = r.ok]
            /\ UNCHANGED loaded
            /\ GuiUnchanged

\* call.apply is the apply_profile before it, if there was one: its list and profile
LibNewFromModList ==
    \E n \in ProfileNames :
        /\ \/ call.op = "none"
           \/ call.op = "apply_profile" /\ ~call.repeat
        /\ call' = [NoCall EXCEPT !.op = "new_from_mod_list", !.pre = unwrap(mod_list),
                                  !.name = n,
                                  !.profile = new_from_mod_list(n, unwrap(mod_list)),
                                  !.apply = IF call.op = "apply_profile"
                                            THEN Some([list |-> call.pre,
                                                       profile |-> call.profile])
                                            ELSE None]
        /\ UNCHANGED <<mod_list, loaded>>
        /\ GuiUnchanged

\* ModList -> ModFileDTO
LibExport ==
    /\ call.op = "none"
    /\ call' = [NoCall EXCEPT !.op = "export", !.pre = unwrap(mod_list),
                              !.dto = FromModList(unwrap(mod_list))]
    /\ UNCHANGED <<mod_list, loaded>>
    /\ GuiUnchanged

\* ModFileDTO -> ModList, of the records LibExport made
LibImport ==
    /\ call.op = "export"
    /\ mod_list' = Some(FromModFileDTO(call.dto))
    /\ call' = [NoCall EXCEPT !.op = "import", !.pre = call.pre, !.dto = call.dto]
    /\ UNCHANGED loaded
    /\ GuiUnchanged

LibNext ==
    \/ LibDeactivateAll
    \/ LibApplyProfile
    \/ LibSetModActiveState
    \/ LibNewFromModList
    \/ LibExport
    \/ LibImport

\* A client that calls one operation of the library on a list it holds (any list
\* is a first list), then the same apply_profile once more, or the snapshot of the
\* list a profile was applied to, or the import of what it exported; call
\* describes the last call.
SpecLib == LibInit /\ [][LibNext]_vars

\* A session of in-core operations on a loaded list: any number of them, in any
\* order, with any arguments.
SessionInit ==
    /\ \E l \in Lists : mod_list = Some(l) /\ loaded = descriptors(l)
    /\ call = NoCall
    /\ NoGui

SessionDeactivateAll ==
    /\ mod_list' = Some(deactivate_all(unwrap(mod_list)))
    /\ UNCHANGED <<loaded, call>>
    /\ GuiUnchanged

SessionApplyProfile ==
    \E n \in ProfileNames, a \in ActiveMods :
        /\ mod_list' = Some(apply_profile(unwrap(mod_list), ModProfile(n, a)))
        /\ UNCHANGED <<loaded, call>>
        /\ GuiUnchanged

SessionSetModActiveState ==
    \E index \in 0..(MaxLen + 1), b \in BOOLEAN :
        /\ mod_list' = Some(set_mod_active_state(unwrap(mod_list), index, b).list)
        /\ UNCHANGED <<loaded, call>>
        /\ GuiUnchanged

SessionNext ==
    \/ SessionDeactivateAll
    \/ SessionApplyProfile
    \/ SessionSetModActiveState

SpecSession == SessionInit /\ [][SessionNext]_vars

\* ------------------------------------------------------ DataManager, GUI
\* DataManager::resolve_profile_path: the profile names here have no dot, so the
\* file of a profile is known by the profile's name.
resolve_profile_path(name) == name

\* DataManager::list_profiles: the names of the profile files, in no set order
list_profiles(dir) == {n \in ProfileNames : is_some(dir[resolve_profile_path(n)])}

\* Jankloada::view_modlist: the entries of warhammer3, each with its number among
\* them (enumerate after filter); view_mod_entry(i, x) gives the entry x a toggler
\* that sends ToggleModActive(i, b)
view_modlist(l) ==
    LET shown == SelectSeq(mods(l), LAMBDA m : m.game = "warhammer3")
    IN  [k \in DOMAIN shown |-> [i |-> k - 1, x |-> shown[k]]]

\* The mod files a session may find: the launcher's entries have one identifier
\* each, any flags, any game; the records of the file are in any order.
reverse(s) == [k \in DOMAIN s |-> s[Len(s) + 1 - k]]

GuiLists ==
    UNION {{[k \in 1..n |-> ModEntry(GuiUUIDs[k], k, f[k][1], f[k][2])] :
              f \in [1..n -> BOOLEAN \X Games]} : n \in 0..MaxGuiLen}

GuiModFiles == UNION {{FromModList(l), reverse(FromModList(l))} : l \in GuiLists}

\* The profile files a session may find: none, or one of an earlier session
GuiActiveMods ==
    UNION {[1..n -> {GuiUUIDs[k] : k \in 1..MaxGuiLen}] : n \in 0..MaxGuiLen}

GuiProfileDirs ==
    [ProfileNames -> {None} \cup {Some(ModProfile("waaagh", a)) : a \in GuiActiveMods}]

LibUnchanged == UNCHANGED <<loaded, call>>

\* Jankloada::new
Init ==
    /\ mod_list = None
    /\ profile_name = ""
    /\ profile_dir \in GuiProfileDirs
    /\ profile_list = list_profiles(profile_dir)
    /\ dirty = FALSE
    /\ mod_file \in GuiModFiles
    /\ message = NoMessage
    /\ loaded = <<>>
    /\ call = NoCall

\* Message::LoadProfile(n), of the button of a listed profile; the expect()s end
\* the program when the profile file is missing or no list is loaded
LoadProfile ==
    \E n \in profile_list :
        /\ is_some(mod_list)
        /\ is_some(profile_dir[resolve_profile_path(n)])
        /\ mod_list' = Some(apply_profile(unwrap(mod_list),
                                          unwrap(profile_dir[resolve_profile_path(n)])))
        /\ profile_name' = n
        /\ dirty' = TRUE
        /\ message' = [NoMessage EXCEPT !.type = "LoadProfile", !.n = n]
        /\ UNCHANGED <<profile_list, mod_file, profile_dir>>
        /\ LibUnchanged

\* Message::NameProfile(s), of the text input of the profile pane
NameProfile ==
    \E s \in ProfileNames \cup {""} :
        /\ is_some(mod_list)
        /\ profile_name' = s
        /\ message' = [NoMessage EXCEPT !.type = "NameProfile", !.n = s]
        /\ UNCHANGED <<mod_list, dirty, profile_list, mod_file, profile_dir>>
        /\ LibUnchanged

\* Message::SaveProfileAs(n), of the save button: n is the profile name, not empty
SaveProfileAs ==
    /\ is_some(mod_list)
    /\ profile_name # ""
    /\ LET n == profile_name
           profile == new_from_mod_list(n, unwrap(mod_list))
       IN  /\ profile_dir' = [profile_dir EXCEPT ![resolve_profile_path(n)] = Some(profile)]
           /\ message' = [NoMessage EXCEPT !.type = "SaveProfileAs", !.n = n]
    /\ profile_list' = list_profiles(profile_dir')
    /\ UNCHANGED <<mod_list, dirty, profile_name, mod_file>>
    /\ LibUnchanged

\* Message::DeleteProfile(n), of the button of a listed profile
DeleteProfile ==
    \E n \in profile_list :
        /\ is_some(mod_list)
        /\ is_some(profile_dir[resolve_profile_path(n)])
        /\ profile_dir' = [profile_dir EXCEPT ![resolve_profile_path(n)] = None]
        /\ profile_list' = list_profiles(profile_dir')
        /\ message' = [NoMessage EXCEPT !.type = "DeleteProfile", !.n = n]
        /\ UNCHANGED <<mod_list, dirty, profile_name, mod_file>>
        /\ LibUnchanged

\* Message::ListProfiles
ListProfiles ==
    /\ is_some(mod_list)
    /\ profile_list' = list_profiles(profile_dir)
    /\ message' = [NoMessage EXCEPT !.type = "ListProfiles"]
    /\ UNCHANGED <<mod_list, dirty, profile_name, mod_file, profile_dir>>
    /\ LibUnchanged

\* Message::LoadModList: DataManager::load_mod_file
LoadModList ==
    /\ mod_list' = Some(FromModFileDTO(mod_file))
    /\ profile_name' = ""
    /\ dirty' = FALSE
    /\ message' = [NoMessage EXCEPT !.type = "LoadModList"]
    /\ UNCHANGED <<profile_list, mod_file, profile_dir>>
    /\ LibUnchanged

\* Message::SaveModList: DataManager::save_to_mod_file writes the file or fails
\* and leaves it; its Result is dropped
SaveModList ==
    \E written \in BOOLEAN :
        /\ is_some(mod_list)
        /\ mod_file' = IF written THEN FromModList(unwrap(mod_list)) ELSE mod_file
        /\ dirty' = FALSE
        /\ message' = [NoMessage EXCEPT !.type = "SaveModList"]
        /\ UNCHANGED <<mod_list, profile_name, profile_list, profile_dir>>
        /\ LibUnchanged

\* Message::ToggleModActive(i, b), of the toggler of a shown entry; the Result of
\* set_mod_active_state is dropped
ToggleModActive ==
    /\ is_some(mod_list)
    /\ \E k \in DOMAIN view_modlist(unwrap(mod_list)), b \in BOOLEAN :
        LET i == view_modlist(unwrap(mod_list))[k].i
        IN  /\ mod_list' = Some(set_mod_active_state(unwrap(mod_list), i, b).list)
            /\ dirty' = TRUE
            /\ message' = [NoMessage EXCEPT !.type = "ToggleModActive", !.i = i, !.b = b]
            /\ UNCHANGED <<profile_name, profile_list, mod_file, profile_dir>>
            /\ LibUnchanged

Next ==
    \/ LoadProfile
    \/ NameProfile
    \/ SaveProfileAs
    \/ DeleteProfile
    \/ ListProfiles
    \/ LoadModList
    \/ SaveModList
    \/ ToggleModActive

\* The GUI session: Jankloada::update on the messages the view can send
Spec == Init /\ [][Next]_vars

\* ------------------------------------------------------------ properties
ids(l) == [k \in DOMAIN l |-> l[k].uuid]
id_set(l) == {l[k].uuid : k \in DOMAIN l}
has_unique_ids(l) == \A j, k \in DOMAIN l : l[j].uuid = l[k].uuid => j = k
has_duplicate_ids(l) == ~has_unique_ids(l)
count(s, x) == Cardinality({k \in DOMAIN s : s[k] = x})

\* b has the entries of a, each as often, in any order and with any flags
same_entries(a, b) ==
    /\ Len(a) = Len(b)
    /\ \A k \in DOMAIN a :
          count(descriptors(a), descriptor(a[k])) = count(descriptors(b), descriptor(a[k]))
    /\ \A u \in id_set(a) \cup id_set(b) : count(ids(a), u) = count(ids(b), u)

\* s without the elements that are not in the set
restricted(s, set) == SelectSeq(s, LAMBDA x : x \in set)

\* s without the later occurrences of its elements
RECURSIVE first_occurrences(_)
first_occurrences(s) ==
    IF s = <<>> THEN <<>>
    ELSE LET front == SubSeq(s, 1, Len(s) - 1)
         IN  IF contains(front, s[Len(s)])
             THEN first_occurrences(front)
             ELSE Append(first_occurrences(front), s[Len(s)])

applied == call.op = "apply_profile"
result == unwrap(mod_list)

\* C1: apply_profile(L, P) is a permutation of L's entries, for any L (repeated
\* identifiers too) and any P (repeated or unknown identifiers too): the same
\* length, the same identifiers as often, no entry added, dropped or duplicated.
C1_ApplyProfilePermutes == applied => same_entries(call.pre, result)

C1_Witness ==
    /\ applied
    /\ Len(call.pre) = 3
    /\ has_duplicate_ids(call.pre)
    /\ \E u \in id_set(call.pre) :
          count(ids(call.pre), u) = 2 /\ count(call.profile.active_mods, u) = 1
    /\ \E k \in DOMAIN call.profile.active_mods :
          call.profile.active_mods[k] \notin id_set(call.pre)
    /\ ids(result) # ids(call.pre)

\* C2: after apply_profile(L, P) an entry is active if and only if its identifier
\* occurs in P, whatever its flag was before.
C2_ActiveIffInProfile ==
    applied =>
        \A k \in DOMAIN result :
            result[k].active <=> contains(call.profile.active_mods, result[k].uuid)

C2_Witness ==
    /\ applied
    /\ \E k \in DOMAIN call.pre :
          call.pre[k].active /\ ~contains(call.profile.active_mods, call.pre[k].uuid)
    /\ \E k \in DOMAIN call.pre :
          ~call.pre[k].active /\ contains(call.profile.active_mods, call.pre[k].uuid)
    /\ \E k \in DOMAIN call.pre :
          call.pre[k].active /\ contains(call.profile.active_mods, call.pre[k].uuid)

active_first(l) == \A j, k \in DOMAIN l : j < k /\ l[k].active => l[j].active
active_ids(l) == ids(SelectSeq(l, LAMBDA m : m.active))
inactive_ids(l) == ids(SelectSeq(l, LAMBDA m : ~m.active))
active_id_set(l) == {l[k].uuid : k \in {j \in DOMAIN l : l[j].active}}

\* C3 as the specification states it: for L with unique identifiers, the active
\* entries of apply_profile(L, P) come first, their identifiers are P's sequence
\* restricted to the identifiers of L, and the inactive entries follow in the
\* order they had in L.
C3_OrderAsStated ==
    applied /\ has_unique_ids(call.pre) =>
        /\ active_first(result)
        /\ active_ids(result) = restricted(call.profile.active_mods, id_set(call.pre))
        /\ inactive_ids(result) =
              restricted(ids(call.pre), id_set(call.pre) \ active_id_set(result))

\* C3, amended: for L with unique identifiers, the active entries come first, their
\* identifiers are P's sequence restricted to the identifiers of L with only the
\* first occurrence of each identifier kept, and the inactive entries follow in
\* the order they had in L.
C3_OrderFirstOccurrences ==
    applied /\ has_unique_ids(call.pre) =>
        /\ active_first(result)
        /\ active_ids(result) =
              first_occurrences(restricted(call.profile.active_mods, id_set(call.pre)))
        /\ inactive_ids(result) =
              restricted(ids(call.pre), id_set(call.pre) \ active_id_set(result))

C3_Witness ==
    /\ applied
    /\ has_unique_ids(call.pre)
    /\ Len(call.pre) = 2
    /\ call.pre[1].active
    /\ Len(call.profile.active_mods) = 3
    /\ call.profile.active_mods[1] = call.pre[2].uuid
    /\ call.profile.active_mods[2] \notin id_set(call.pre)
    /\ call.profile.active_mods[3] = call.pre[2].uuid
    /\ active_ids(result) = <<call.pre[2].uuid>>
    /\ inactive_ids(result) = <<call.pre[1].uuid>>

\* C4: apply_profile is idempotent: applying P to apply_profile(L, P) gives it
\* again, in the order of the entries and in every flag.
C4_ApplyProfileIdempotent == applied /\ call.repeat => result = call.pre

C4_Witness ==
    /\ applied
    /\ call.repeat
    /\ Len(result) = 3
    /\ has_duplicate_ids(result)
    /\ ~result[3].active
    /\ result[1].name = 3
    /\ result = call.pre

\* C5: for L with unique identifiers, importing what export made of L gives L:
\* the same entries, the same fields, the same order.
C5_RoundTrip ==
    call.op = "import" /\ has_unique_ids(call.pre) => result = call.pre

C5_Witness ==
    /\ call.op = "import"
    /\ has_unique_ids(call.pre)
    /\ Len(call.pre) = 3
    /\ Len(call.dto) = 3
    /\ result = call.pre

\* C6: export gives the entry at 0-based position i the order i + 1: the orders
\* are 1..n in list order, and never the reserved 0.
C6_ExportOrders ==
    call.op = "export" =>
        /\ Len(call.dto) = Len(call.pre)
        /\ \A k \in DOMAIN call.dto :
              /\ call.dto[k].order = k
              /\ call.dto[k].order # 0
              /\ call.dto[k].uuid = call.pre[k].uuid

C6_Witness == call.op = "export" /\ Len(call.dto) = 3 /\ call.dto[3].order = 3

\* C7: set_mod_active_state(L, index, b) is an error if and only if
\* index >= length(L); then L is as it was, and otherwise the flag of the entry at
\* index is b and nothing else of L has changed.
C7_SetActiveBounds ==
    call.op = "set_mod_active_state" =>
        /\ ~call.ok <=> call.index >= Len(call.pre)
        /\ ~call.ok => result = call.pre
        /\ call.ok =>
              /\ Len(result) = Len(call.pre)
              /\ \A k \in DOMAIN result :
                    result[k] = IF k = call.index + 1
                                THEN [call.pre[k] EXCEPT !.active = call.b]
                                ELSE call.pre[k]

C7_Witness ==
    /\ call.op = "set_mod_active_state"
    /\ Len(call.pre) = 2
    /\ call.index = 2
    /\ ~call.ok
    /\ result = call.pre

\* C8: after any sequence of deactivate_all, set_mod_active_state and
\* apply_profile, with any arguments, the list has the identifiers and the
\* descriptive fields of the loaded list, each as often: no entry is created or
\* destroyed, only flags and the order change.
C8_EntriesPreserved == same_entries(loaded, result)

C8_Witness ==
    /\ Len(loaded) = 3
    /\ has_duplicate_ids(loaded)
    /\ ids(result) # ids(loaded)
    /\ result[1].name = 3
    /\ result[1].active
    /\ result[3].active
    /\ ~result[2].active

\* The position in l of its j-th active entry
nth_active(l, j) ==
    CHOOSE k \in DOMAIN l :
        l[k].active /\ Cardinality({i \in 1..k : l[i].active}) = j

\* C9: new_from_mod_list(n, L) has the name n and the identifiers of exactly the
\* active entries of L, in L's order, and leaves L as it was.
C9_SnapshotConsistent ==
    call.op = "new_from_mod_list" =>
        /\ call.profile.name = call.name
        /\ Len(call.profile.active_mods) =
              Cardinality({k \in DOMAIN call.pre : call.pre[k].active})
        /\ \A j \in DOMAIN call.profile.active_mods :
              call.profile.active_mods[j] = call.pre[nth_active(call.pre, j)].uuid
        /\ result = call.pre

C9_Witness ==
    /\ call.op = "new_from_mod_list"
    /\ call.name = "waaagh"
    /\ Len(call.pre) = 3
    /\ call.pre[1].active /\ ~call.pre[2].active /\ call.pre[3].active
    /\ call.profile.active_mods = <<call.pre[1].uuid, call.pre[3].uuid>>

\* C10: in the GUI session, the ToggleModActive(i, b) of the toggler shown next to
\* a mod sets the active flag of that mod to b and changes no other entry, also
\* when the list has entries of other games.
C10_TogglerSetsItsMod ==
    [][message'.type = "ToggleModActive" =>
          LET l == unwrap(mod_list)
              x == view_modlist(l)[message'.i + 1].x
          IN  unwrap(mod_list') =
                  [k \in DOMAIN l |->
                      IF l[k] = x THEN [l[k] EXCEPT !.active = message'.b] ELSE l[k]]]_vars

\* C11: in the GUI session, whatever messages came and whether or not a save wrote
\* the file, when a list is loaded and dirty is false the list in memory is the
\* content last loaded from or written to the mod file (nothing but the session
\* writes the file, so that is the list the file holds now): dirty = false never
\* hides changes that are not saved.
C11_CleanMeansSaved ==
    is_some(mod_list) /\ ~dirty => unwrap(mod_list) = FromModFileDTO(mod_file)

has_distinct_elements(s) == \A j, k \in DOMAIN s : s[j] = s[k] => j = k

\* C12: for L with unique identifiers and P with pairwise distinct identifiers,
\* the snapshot new_from_mod_list(n, apply_profile(L, P)) has P's identifier
\* sequence without the identifiers L lacks; when L has every identifier of P, the
\* snapshot has P's sequence as it is.
C12_ApplyThenSnapshot ==
    call.op = "new_from_mod_list" /\ is_some(call.apply) =>
        LET L == unwrap(call.apply).list
            P == unwrap(call.apply).profile
        IN  has_unique_ids(L) /\ has_distinct_elements(P.active_mods) =>
                /\ call.profile.active_mods = restricted(P.active_mods, id_set(L))
                /\ (\A k \in DOMAIN P.active_mods : P.active_mods[k] \in id_set(L)) =>
                       call.profile.active_mods = P.active_mods

C12_Witness ==
    /\ call.op = "new_from_mod_list"
    /\ is_some(call.apply)
    /\ has_unique_ids(unwrap(call.apply).list)
    /\ has_distinct_elements(unwrap(call.apply).profile.active_mods)
    /\ Len(unwrap(call.apply).list) = 2
    /\ unwrap(call.apply).list[1].active
    /\ Len(unwrap(call.apply).profile.active_mods) = 3
    /\ unwrap(call.apply).profile.active_mods[1] = unwrap(call.apply).list[2].uuid
    /\ unwrap(call.apply).profile.active_mods[2] \notin id_set(unwrap(call.apply).list)
    /\ unwrap(call.apply).profile.active_mods[3] = unwrap(call.apply).list[1].uuid
    /\ call.profile.active_mods =
          <<unwrap(call.apply).list[2].uuid, unwrap(call.apply).list[1].uuid>>

====
